---- MODULE Spec2Model ----
(***************************************************************************)
(* Model of the SDL rendering tutorial programs.  Three programs share the *)
(* repository: two single-texture programs with the same main              *)
(* (src/unnamed/part_000 and src/sdl-test/main.cpp) and one two-texture    *)
(* program (src/unnamed/part_001).  Each is a sequential main; the state   *)
(* is main's local variables, the position in main, and the trace of       *)
(* library calls and stream writes it has made.  The outcome of every      *)
(* library call that can fail is chosen nondeterministically.              *)
(***************************************************************************)
EXTENDS Integers, Sequences, FiniteSets, TLC

VARIABLES
    variant,      \* which program runs
    pc,           \* position in main
    exit,         \* "running", "EXIT_SUCCESS" or "EXIT_FAILURE"
    i,            \* the frame loop counter
    mainWindow,   \* SDL_Window*   (0 is the null pointer)
    renderer,     \* SDL_Renderer*
    bmp,          \* SDL_Surface*  (single-texture programs)
    texture,      \* SDL_Texture*  (single-texture programs)
    background,   \* SDL_Texture*  (two-texture program)
    foreground,   \* SDL_Texture*  (two-texture program)
    bW, bH,       \* main's locals for the background size
    iW, iH,       \* main's locals for the foreground size
    x, y,         \* main's locals for the foreground position
    calls,        \* the trace of library calls and stream writes
    lastDest,     \* the destination rectangle of the latest SDL_RenderCopy
    sdlError,     \* the library's last-error text (SDL_GetError)
    nextHandle,   \* the next handle the library hands out
    texDim,       \* library side: the size of each texture handle (<<0, 0>>
                  \* for a handle that is no texture)
    imageSize     \* the bitmap files on disk: name -> <<width, height>>

vars == <<variant, pc, exit, i, mainWindow, renderer, bmp, texture, background,
          foreground, bW, bH, iW, iH, x, y, calls, lastDest, sdlError,
          nextHandle, texDim, imageSize>>

locals == <<bmp, texture, background, foreground, bW, bH, iW, iH, x, y>>

(***************************************************************************)
(* Bounds of the model.                                                    *)
(***************************************************************************)
MaxDim == 3           \* image widths and heights range over 1..MaxDim
MaxHandles == 6       \* window, renderer, two surfaces, two textures

Dims == 1..MaxDim
Handles == 1..MaxHandles
NULL == 0

\* What an uninitialised int may hold when it is read.
UninitInts == {-1, 0, MaxDim + 1}

Variants == {"part_000", "main.cpp", "part_001"}
TwoTexture == variant = "part_001"

(***************************************************************************)
(* Program constants.                                                      *)
(***************************************************************************)
SCREEN_WIDTH == 640
SCREEN_HEIGHT == 480
DelayMs == 1000
FrameCount == 3

\* C integer division (truncation toward zero).
CDiv(a, b) == IF a >= 0 THEN a \div b ELSE -((-a) \div b)

(***************************************************************************)
(* Trace events.  args: the handles passed; ret: the value returned;       *)
(* ints: other integer arguments or results; text: strings (a file name,   *)
(* or the pieces of a line written to a stream).                           *)
(***************************************************************************)
Ev(fn, args, ret, ints, text) ==
    [fn |-> fn, args |-> args, ret |-> ret, ints |-> ints, text |-> text]

\* os << errorMessage << " error: " << SDL_GetError() << '\n'
LogSDLError(os, errorMessage, err) ==
    Ev(os, <<>>, 0, <<>>, <<errorMessage, " error: ", err>>)

\* std::cout << "<op> Error: " << SDL_GetError() << '\n'
CoutError(op, err) ==
    Ev("std::cout", <<>>, 0, <<>>, <<op, " Error: ", err>>)

\* The hardcoded image paths: main.cpp 137 (part_000 35); part_001 147-148.
ImageFiles(v) ==
    IF v = "part_001" THEN {"background.bmp", "foreground.bmp"}
                      ELSE {"swirl_effect.bmp"}

Init ==
    /\ variant \in Variants
    /\ pc = "SDL_Init"
    /\ exit = "running"
    /\ i = 0
    /\ mainWindow = NULL /\ renderer = NULL
    /\ bmp = NULL /\ texture = NULL /\ background = NULL /\ foreground = NULL
    /\ bW = 0 /\ bH = 0 /\ iW = 0 /\ iH = 0 /\ x = 0 /\ y = 0
    /\ calls = <<>>
    /\ lastDest = <<>>
    /\ sdlError = ""
    /\ nextHandle = 1
    /\ texDim = [h \in Handles \cup {NULL} |-> <<0, 0>>]
    /\ imageSize \in [ImageFiles(variant) -> Dims \X Dims]

Return(status) == pc' = "returned" /\ exit' = status

(***************************************************************************)
(* Steps shared in shape by all programs, one action per program family    *)
(* because the diagnostics differ.                                         *)
(***************************************************************************)

\* main.cpp 55-59 (part_000 9-13)
Single_SDL_Init ==
    /\ ~TwoTexture /\ pc = "SDL_Init"
    /\ \E ok \in BOOLEAN :
         IF ok
         THEN /\ calls' = Append(calls, Ev("SDL_Init", <<>>, 0, <<>>, <<>>))
              /\ pc' = "SDL_CreateWindow"
              /\ UNCHANGED <<exit, sdlError>>
         ELSE /\ sdlError' = "SDL_Init failed"
              /\ calls' = calls \o <<Ev("SDL_Init", <<>>, -1, <<>>, <<>>),
                                     CoutError("SDL_Init", sdlError')>>
              /\ Return("EXIT_FAILURE")
    /\ UNCHANGED <<variant, i, mainWindow, renderer, locals, lastDest,
                   nextHandle, texDim, imageSize>>

\* part_001 64-68
Two_SDL_Init ==
    /\ TwoTexture /\ pc = "SDL_Init"
    /\ \E ok \in BOOLEAN :
         IF ok
         THEN /\ calls' = Append(calls, Ev("SDL_Init", <<>>, 0, <<>>, <<>>))
              /\ pc' = "SDL_CreateWindow"
              /\ UNCHANGED <<exit, sdlError>>
         ELSE /\ sdlError' = "SDL_Init failed"
              /\ calls' = calls \o <<Ev("SDL_Init", <<>>, -1, <<>>, <<>>),
                                     LogSDLError("std::cerr", "SDL_Init", sdlError')>>
              /\ Return("EXIT_FAILURE")
    /\ UNCHANGED <<variant, i, mainWindow, renderer, locals, lastDest,
                   nextHandle, texDim, imageSize>>


(***************************************************************************)
(* Library creation calls.  A successful call returns the next handle.     *)
(***************************************************************************)
\* What the window-creation failure path does after the failed call.
Single_WindowFailure(err) ==
    <<CoutError("SDL_CreateWindow", err), Ev("SDL_Quit", <<>>, 0, <<>>, <<>>)>>

Two_WindowFailure(err) ==
    <<LogSDLError("std::cerr", "CreateWindow", err),
      Ev("SDL_Quit", <<>>, 0, <<>>, <<>>)>>

\* What the renderer-creation failure path does after the failed call.
Single_RendererFailure(w, err) ==
    <<Ev("SDL_DestroyWindow", <<w>>, 0, <<>>, <<>>),
      CoutError("SDL_CreateRenderer", err),
      Ev("SDL_Quit", <<>>, 0, <<>>, <<>>)>>

\* Mutant: the window is not destroyed on the renderer failure path.
Two_RendererFailure_NoDestroy(w, err) ==
    <<LogSDLError("std::cerr", "CreateRenderer", err),
      Ev("SDL_Quit", <<>>, 0, <<>>, <<>>)>>

Two_RendererFailure(w, err) ==
    <<Ev("SDL_DestroyWindow", <<w>>, 0, <<>>, <<>>),
      LogSDLError("std::cerr", "CreateRenderer", err),
      Ev("SDL_Quit", <<>>, 0, <<>>, <<>>)>>

\* main.cpp 82-89 (part_000 15-22)
Single_SDL_CreateWindow ==
    /\ ~TwoTexture /\ pc = "SDL_CreateWindow"
    /\ \E ok \in BOOLEAN :
         IF ok
         THEN /\ mainWindow' = nextHandle
              /\ nextHandle' = nextHandle + 1
              /\ calls' = Append(calls,
                     Ev("SDL_CreateWindow", <<>>, nextHandle, <<>>, <<>>))
              /\ pc' = "SDL_CreateRenderer"
              /\ UNCHANGED <<exit, sdlError>>
         ELSE /\ mainWindow' = NULL
              /\ sdlError' = "SDL_CreateWindow failed"
              /\ calls' = calls \o
                     <<Ev("SDL_CreateWindow", <<>>, NULL, <<>>, <<>>)>> \o
                     Single_WindowFailure(sdlError')
              /\ Return("EXIT_FAILURE")
              /\ UNCHANGED nextHandle
    /\ UNCHANGED <<variant, i, renderer, locals, lastDest, texDim, imageSize>>

\* part_001 91-98
Two_SDL_CreateWindow ==
    /\ TwoTexture /\ pc = "SDL_CreateWindow"
    /\ \E ok \in BOOLEAN :
         IF ok
         THEN /\ mainWindow' = nextHandle
              /\ nextHandle' = nextHandle + 1
              /\ calls' = Append(calls,
                     Ev("SDL_CreateWindow", <<>>, nextHandle, <<>>, <<>>))
              /\ pc' = "SDL_CreateRenderer"
              /\ UNCHANGED <<exit, sdlError>>
         ELSE /\ mainWindow' = NULL
              /\ sdlError' = "SDL_CreateWindow failed"
              /\ calls' = calls \o
                     <<Ev("SDL_CreateWindow", <<>>, NULL, <<>>, <<>>)>> \o
                     Two_WindowFailure(sdlError')
              /\ Return("EXIT_FAILURE")
              /\ UNCHANGED nextHandle
    /\ UNCHANGED <<variant, i, renderer, locals, lastDest, texDim, imageSize>>

\* main.cpp 111-120 (part_000 24-33)
Single_SDL_CreateRenderer ==
    /\ ~TwoTexture /\ pc = "SDL_CreateRenderer"
    /\ \E ok \in BOOLEAN :
         IF ok
         THEN /\ renderer' = nextHandle
              /\ nextHandle' = nextHandle + 1
              /\ calls' = Append(calls,
                     Ev("SDL_CreateRenderer", <<mainWindow>>, nextHandle, <<>>, <<>>))
              /\ pc' = "SDL_LoadBMP"
              /\ UNCHANGED <<exit, sdlError>>
         ELSE /\ renderer' = NULL
              /\ sdlError' = "SDL_CreateRenderer failed"
              /\ calls' = calls \o
                     <<Ev("SDL_CreateRenderer", <<mainWindow>>, NULL, <<>>, <<>>)>> \o
                     Single_RendererFailure(mainWindow, sdlError')
              /\ Return("EXIT_FAILURE")
              /\ UNCHANGED nextHandle
    /\ UNCHANGED <<variant, i, mainWindow, locals, lastDest, texDim, imageSize>>

\* part_001 120-129
Two_SDL_CreateRenderer ==
    /\ TwoTexture /\ pc = "SDL_CreateRenderer"
    /\ \E ok \in BOOLEAN :
         IF ok
         THEN /\ renderer' = nextHandle
              /\ nextHandle' = nextHandle + 1
              /\ calls' = Append(calls,
                     Ev("SDL_CreateRenderer", <<mainWindow>>, nextHandle, <<>>, <<>>))
              /\ pc' = "loadBackground"
              /\ UNCHANGED <<exit, sdlError>>
         ELSE /\ renderer' = NULL
              /\ sdlError' = "SDL_CreateRenderer failed"
              /\ calls' = calls \o
                     <<Ev("SDL_CreateRenderer", <<mainWindow>>, NULL, <<>>, <<>>)>> \o
                     Two_RendererFailure(mainWindow, sdlError')
              /\ Return("EXIT_FAILURE")
              /\ UNCHANGED nextHandle
    /\ UNCHANGED <<variant, i, mainWindow, locals, lastDest, texDim, imageSize>>

(***************************************************************************)
(* The single-texture programs: decode, upload, three frames, teardown.    *)
(***************************************************************************)
\* main.cpp 141-146 (part_000 39-44)
Single_LoadFailure(r, w, err) ==
    <<Ev("SDL_DestroyRenderer", <<r>>, 0, <<>>, <<>>),
      Ev("SDL_DestroyWindow", <<w>>, 0, <<>>, <<>>),
      CoutError("SDL_LoadBMP", err),
      Ev("SDL_Quit", <<>>, 0, <<>>, <<>>)>>

\* main.cpp 170-175 (part_000 52-57)
Single_TextureFailure(r, w, err) ==
    <<Ev("SDL_DestroyRenderer", <<r>>, 0, <<>>, <<>>),
      Ev("SDL_DestroyWindow", <<w>>, 0, <<>>, <<>>),
      CoutError("SDL_CreateTextureFromSurface", err),
      Ev("SDL_Quit", <<>>, 0, <<>>, <<>>)>>

\* main.cpp 209-213 (part_000 68-72)
Single_Cleanup(t, r, w) ==
    <<Ev("SDL_DestroyTexture", <<t>>, 0, <<>>, <<>>),
      Ev("SDL_DestroyRenderer", <<r>>, 0, <<>>, <<>>),
      Ev("SDL_DestroyWindow", <<w>>, 0, <<>>, <<>>),
      Ev("SDL_Quit", <<>>, 0, <<>>, <<>>)>>

\* main.cpp 193: i < 3
Single_LoopContinues(k) == k < FrameCount

\* main.cpp 137-148 (part_000 35-46)
Single_SDL_LoadBMP ==
    /\ ~TwoTexture /\ pc = "SDL_LoadBMP"
    /\ \E ok \in BOOLEAN :
         IF ok
         THEN /\ bmp' = nextHandle
              /\ nextHandle' = nextHandle + 1
              /\ calls' = Append(calls,
                     Ev("SDL_LoadBMP", <<>>, nextHandle, <<>>, <<"swirl_effect.bmp">>))
              /\ pc' = "SDL_CreateTextureFromSurface"
              /\ UNCHANGED <<exit, sdlError>>
         ELSE /\ bmp' = NULL
              /\ sdlError' = "SDL_LoadBMP failed"
              /\ calls' = calls \o
                     <<Ev("SDL_LoadBMP", <<>>, NULL, <<>>, <<"swirl_effect.bmp">>)>> \o
                     Single_LoadFailure(renderer, mainWindow, sdlError')
              /\ Return("EXIT_FAILURE")
              /\ UNCHANGED nextHandle
    /\ UNCHANGED <<variant, i, mainWindow, renderer, texture, background,
                   foreground, bW, bH, iW, iH, x, y, lastDest, texDim, imageSize>>

\* main.cpp 166-177 (part_000 48-59)
Single_SDL_CreateTextureFromSurface ==
    /\ ~TwoTexture /\ pc = "SDL_CreateTextureFromSurface"
    /\ \E ok \in BOOLEAN :
         LET created == Ev("SDL_CreateTextureFromSurface", <<renderer, bmp>>,
                           IF ok THEN nextHandle ELSE NULL, <<>>, <<>>)
             freed == Ev("SDL_FreeSurface", <<bmp>>, 0, <<>>, <<>>)
         IN IF ok
            THEN /\ texture' = nextHandle
                 /\ nextHandle' = nextHandle + 1
                 /\ texDim' = [texDim EXCEPT ![nextHandle] = imageSize["swirl_effect.bmp"]]
                 /\ calls' = calls \o <<created, freed>>
                 /\ pc' = "clear"
                 /\ UNCHANGED <<exit, sdlError>>
            ELSE /\ texture' = NULL
                 /\ sdlError' = "SDL_CreateTextureFromSurface failed"
                 /\ calls' = calls \o <<created, freed>> \o
                        Single_TextureFailure(renderer, mainWindow, sdlError')
                 /\ Return("EXIT_FAILURE")
                 /\ UNCHANGED <<nextHandle, texDim>>
    /\ UNCHANGED <<variant, i, mainWindow, renderer, bmp, background,
                   foreground, bW, bH, iW, iH, x, y, lastDest, imageSize>>

\* main.cpp 193-194 (part_000 61-62)
Single_SDL_RenderClear ==
    /\ ~TwoTexture /\ pc = "clear" /\ Single_LoopContinues(i)
    /\ calls' = Append(calls, Ev("SDL_RenderClear", <<renderer>>, 0, <<>>, <<>>))
    /\ pc' = "copy"
    /\ UNCHANGED <<variant, exit, i, mainWindow, renderer, locals, lastDest,
                   sdlError, nextHandle, texDim, imageSize>>

\* main.cpp 195 (part_000 63): source and destination rectangles are NULL
Single_SDL_RenderCopy ==
    /\ ~TwoTexture /\ pc = "copy"
    /\ calls' = Append(calls, Ev("SDL_RenderCopy", <<renderer, texture>>, 0, <<>>, <<>>))
    /\ lastDest' = <<>>
    /\ pc' = "present"
    /\ UNCHANGED <<variant, exit, i, mainWindow, renderer, locals,
                   sdlError, nextHandle, texDim, imageSize>>

\* main.cpp 196 (part_000 64)
Single_SDL_RenderPresent ==
    /\ ~TwoTexture /\ pc = "present"
    /\ calls' = Append(calls, Ev("SDL_RenderPresent", <<renderer>>, 0, <<>>, <<>>))
    /\ pc' = "delay"
    /\ UNCHANGED <<variant, exit, i, mainWindow, renderer, locals, lastDest,
                   sdlError, nextHandle, texDim, imageSize>>

\* main.cpp 197 and the loop's ++i (part_000 65)
Single_SDL_Delay ==
    /\ ~TwoTexture /\ pc = "delay"
    /\ calls' = Append(calls, Ev("SDL_Delay", <<>>, 0, <<DelayMs>>, <<>>))
    /\ i' = i + 1
    /\ pc' = "clear"
    /\ UNCHANGED <<variant, exit, mainWindow, renderer, locals, lastDest,
                   sdlError, nextHandle, texDim, imageSize>>

\* main.cpp 209-214 (part_000 68-73)
Single_Teardown ==
    /\ ~TwoTexture /\ pc = "clear" /\ ~Single_LoopContinues(i)
    /\ calls' = calls \o Single_Cleanup(texture, renderer, mainWindow)
    /\ Return("EXIT_SUCCESS")
    /\ UNCHANGED <<variant, i, mainWindow, renderer, locals, lastDest,
                   sdlError, nextHandle, texDim, imageSize>>

(***************************************************************************)
(* The two-texture program.                                                *)
(***************************************************************************)
\* part_001 21: loadedImage != nullptr
ImageLoaded(loadedImage) == loadedImage # NULL

\* part_001 13-34.  decodeOk and uploadOk are the outcomes of the two library
\* calls, h the next free handle.  The result holds the returned texture, the
\* events of the call, the last-error text and the next free handle.
loadTexture(filename, rend, decodeOk, uploadOk, h, err0) ==
    LET loadedImage == IF decodeOk THEN h ELSE NULL
        h1 == IF decodeOk THEN h + 1 ELSE h
        decoded == Ev("SDL_LoadBMP", <<>>, loadedImage, <<>>, <<filename>>)
    IN IF ImageLoaded(loadedImage)
       THEN LET tex == IF uploadOk THEN h1 ELSE NULL
                err == IF uploadOk THEN err0
                       ELSE "SDL_CreateTextureFromSurface failed"
                uploaded == Ev("SDL_CreateTextureFromSurface",
                               <<rend, loadedImage>>, tex, <<>>, <<>>)
                freed == Ev("SDL_FreeSurface", <<loadedImage>>, 0, <<>>, <<>>)
            IN [texture |-> tex,
                events |-> <<decoded, uploaded, freed>> \o
                    (IF tex = NULL
                     THEN <<LogSDLError("std::cerr", "LoadBMP", err)>>
                     ELSE <<>>),
                err |-> err,
                next |-> IF uploadOk THEN h1 + 1 ELSE h1]
       ELSE LET err == IF decodeOk THEN err0 ELSE "SDL_LoadBMP failed"
            IN [texture |-> NULL,
                events |-> <<decoded, LogSDLError("std::cerr", "LoadBMP", err)>>,
                err |-> err,
                next |-> h1]

\* part_001 147
Two_LoadBackground ==
    /\ TwoTexture /\ pc = "loadBackground"
    /\ \E decodeOk \in BOOLEAN, uploadOk \in BOOLEAN :
         LET r == loadTexture("background.bmp", renderer, decodeOk, uploadOk,
                              nextHandle, sdlError)
         IN /\ background' = r.texture
            /\ calls' = calls \o r.events
            /\ sdlError' = r.err
            /\ nextHandle' = r.next
            /\ texDim' = IF r.texture # NULL
                         THEN [texDim EXCEPT ![r.texture] = imageSize["background.bmp"]]
                         ELSE texDim
    /\ pc' = "loadForeground"
    /\ UNCHANGED <<variant, exit, i, mainWindow, renderer, bmp, texture,
                   foreground, bW, bH, iW, iH, x, y, lastDest, imageSize>>

\* part_001 148
Two_LoadForeground ==
    /\ TwoTexture /\ pc = "loadForeground"
    /\ \E decodeOk \in BOOLEAN, uploadOk \in BOOLEAN :
         LET r == loadTexture("foreground.bmp", renderer, decodeOk, uploadOk,
                              nextHandle, sdlError)
         IN /\ foreground' = r.texture
            /\ calls' = calls \o r.events
            /\ sdlError' = r.err
            /\ nextHandle' = r.next
            /\ texDim' = IF r.texture # NULL
                         THEN [texDim EXCEPT ![r.texture] = imageSize["foreground.bmp"]]
                         ELSE texDim
    /\ pc' = "checkTextures"
    /\ UNCHANGED <<variant, exit, i, mainWindow, renderer, bmp, texture,
                   background, bW, bH, iW, iH, x, y, lastDest, imageSize>>

\* Mutant: the check passes as soon as one of the two textures exists.
TexturesMissing_Both(bg, fg) == bg = NULL /\ fg = NULL

\* Mutant: only the background is checked.
TexturesMissing_BackgroundOnly(bg, fg) == bg = NULL

\* part_001 150: (!background) || (!foreground)
TexturesMissing(bg, fg) == bg = NULL \/ fg = NULL

\* part_001 151-156
Two_LoadFailure(r, w, err) ==
    <<Ev("SDL_DestroyRenderer", <<r>>, 0, <<>>, <<>>),
      Ev("SDL_DestroyWindow", <<w>>, 0, <<>>, <<>>),
      LogSDLError("std::cerr", "LoadTexture", err),
      Ev("SDL_Quit", <<>>, 0, <<>>, <<>>)>>

\* part_001 150-158
Two_CheckTextures ==
    /\ TwoTexture /\ pc = "checkTextures"
    /\ IF TexturesMissing(background, foreground)
       THEN /\ calls' = calls \o Two_LoadFailure(renderer, mainWindow, sdlError)
            /\ Return("EXIT_FAILURE")
       ELSE /\ pc' = "clear"
            /\ UNCHANGED <<calls, exit>>
    /\ UNCHANGED <<variant, i, mainWindow, renderer, locals, lastDest,
                   sdlError, nextHandle, texDim, imageSize>>

\* Mutant: the loop bound is off by one.
Two_LoopContinues_OffByOne(k) == k <= FrameCount

\* part_001 160: i < 3
Two_LoopContinues(k) == k < FrameCount

\* SDL_QueryTexture(t, NULL, NULL, &w, &h): the width and height of t.
SDL_QueryTexture(t) == texDim[t]

\* part_001 160-161
Two_SDL_RenderClear ==
    /\ TwoTexture /\ pc = "clear" /\ Two_LoopContinues(i)
    /\ calls' = Append(calls, Ev("SDL_RenderClear", <<renderer>>, 0, <<>>, <<>>))
    /\ pc' = "queryBackground"
    /\ UNCHANGED <<variant, exit, i, mainWindow, renderer, locals, lastDest,
                   sdlError, nextHandle, texDim, imageSize>>

\* part_001 163-166: SDL_QueryTexture(background, NULL, NULL, &bW, &bW).  Both
\* out-parameters point at bW: it ends up holding whichever of the width and
\* the height the library stores last, and bH keeps its initial 0.
Two_QueryBackground ==
    /\ TwoTexture /\ pc = "queryBackground"
    /\ LET q == SDL_QueryTexture(background)
       IN /\ bW' \in {q[1], q[2]}
          /\ bH' = 0
          /\ calls' = Append(calls, Ev("SDL_QueryTexture", <<background>>, 0, q, <<>>))
    /\ pc' = "tile1"
    /\ UNCHANGED <<variant, exit, i, mainWindow, renderer, bmp, texture,
                   background, foreground, iW, iH, x, y, lastDest, sdlError,
                   nextHandle, texDim, imageSize>>

\* part_001 36-45.  garbage is what the uninitialised SDL_Rect holds.  The
\* query stores the width in destination.w and the height in destination.x;
\* destination.h is never assigned.
RenderTextureDest(tex, px, py, garbage) ==
    LET q == SDL_QueryTexture(tex)
        d0 == [x |-> garbage, y |-> garbage, w |-> garbage, h |-> garbage]
        d1 == [d0 EXCEPT !.x = px]
        d2 == [d1 EXCEPT !.y = py]
        d3 == [d2 EXCEPT !.w = q[1]]
    IN [d3 EXCEPT !.x = q[2]]

\* part_001 36-45: the calls RenderTexture makes.
RenderTextureCalls(tex, rend, px, py) ==
    <<Ev("RenderTexture", <<tex, rend>>, 0, <<px, py>>, <<>>),
      Ev("SDL_QueryTexture", <<tex>>, 0, SDL_QueryTexture(tex), <<>>),
      Ev("SDL_RenderCopy", <<rend, tex>>, 0, <<>>, <<>>)>>

RenderTexture(tex, rend, px, py) ==
    /\ calls' = calls \o RenderTextureCalls(tex, rend, px, py)
    /\ \E garbage \in UninitInts :
         lastDest' = RenderTextureDest(tex, px, py, garbage)

\* part_001 168
Two_RenderBackground1 ==
    /\ TwoTexture /\ pc = "tile1"
    /\ RenderTexture(background, renderer, 0, 0)
    /\ pc' = "tile2"
    /\ UNCHANGED <<variant, exit, i, mainWindow, renderer, locals,
                   sdlError, nextHandle, texDim, imageSize>>

\* part_001 169
Two_RenderBackground2 ==
    /\ TwoTexture /\ pc = "tile2"
    /\ RenderTexture(background, renderer, bW, 0)
    /\ pc' = "tile3"
    /\ UNCHANGED <<variant, exit, i, mainWindow, renderer, locals,
                   sdlError, nextHandle, texDim, imageSize>>

\* part_001 170
Two_RenderBackground3 ==
    /\ TwoTexture /\ pc = "tile3"
    /\ RenderTexture(background, renderer, 0, bH)
    /\ pc' = "tile4"
    /\ UNCHANGED <<variant, exit, i, mainWindow, renderer, locals,
                   sdlError, nextHandle, texDim, imageSize>>

\* part_001 171
Two_RenderBackground4 ==
    /\ TwoTexture /\ pc = "tile4"
    /\ RenderTexture(background, renderer, bW, bH)
    /\ pc' = "queryForeground"
    /\ UNCHANGED <<variant, exit, i, mainWindow, renderer, locals,
                   sdlError, nextHandle, texDim, imageSize>>

\* Mutant: the halves are taken after the subtraction.
ForegroundX_HalfOfDifference(w) == CDiv(SCREEN_WIDTH - w, 2)

\* part_001 178
ForegroundX(w) == CDiv(SCREEN_WIDTH, 2) - CDiv(w, 2)

\* part_001 179
ForegroundY(h) == CDiv(SCREEN_HEIGHT, 2) - CDiv(h, 2)

\* part_001 173-179
Two_QueryForeground ==
    /\ TwoTexture /\ pc = "queryForeground"
    /\ LET q == SDL_QueryTexture(foreground)
       IN /\ iW' = q[1]
          /\ iH' = q[2]
          /\ x' = ForegroundX(iW')
          /\ y' = ForegroundY(iH')
          /\ calls' = Append(calls, Ev("SDL_QueryTexture", <<foreground>>, 0, q, <<>>))
    /\ pc' = "renderForeground"
    /\ UNCHANGED <<variant, exit, i, mainWindow, renderer, bmp, texture,
                   background, foreground, bW, bH, lastDest, sdlError,
                   nextHandle, texDim, imageSize>>

\* part_001 181
Two_RenderForeground ==
    /\ TwoTexture /\ pc = "renderForeground"
    /\ RenderTexture(foreground, renderer, x, y)
    /\ pc' = "present"
    /\ UNCHANGED <<variant, exit, i, mainWindow, renderer, locals,
                   sdlError, nextHandle, texDim, imageSize>>

\* part_001 183
Two_SDL_RenderPresent ==
    /\ TwoTexture /\ pc = "present"
    /\ calls' = Append(calls, Ev("SDL_RenderPresent", <<renderer>>, 0, <<>>, <<>>))
    /\ pc' = "delay"
    /\ UNCHANGED <<variant, exit, i, mainWindow, renderer, locals, lastDest,
                   sdlError, nextHandle, texDim, imageSize>>

\* part_001 184 and the loop's i++
Two_SDL_Delay ==
    /\ TwoTexture /\ pc = "delay"
    /\ calls' = Append(calls, Ev("SDL_Delay", <<>>, 0, <<DelayMs>>, <<>>))
    /\ i' = i + 1
    /\ pc' = "clear"
    /\ UNCHANGED <<variant, exit, mainWindow, renderer, locals, lastDest,
                   sdlError, nextHandle, texDim, imageSize>>

\* Mutant: the renderer is destroyed before the textures.
Two_Cleanup_RendererFirst(bg, fg, r, w) ==
    <<Ev("SDL_DestroyRenderer", <<r>>, 0, <<>>, <<>>),
      Ev("SDL_DestroyTexture", <<bg>>, 0, <<>>, <<>>),
      Ev("SDL_DestroyTexture", <<fg>>, 0, <<>>, <<>>),
      Ev("SDL_DestroyWindow", <<w>>, 0, <<>>, <<>>),
      Ev("SDL_Quit", <<>>, 0, <<>>, <<>>)>>

\* part_001 196-201
Two_Cleanup(bg, fg, r, w) ==
    <<Ev("SDL_DestroyTexture", <<bg>>, 0, <<>>, <<>>),
      Ev("SDL_DestroyTexture", <<fg>>, 0, <<>>, <<>>),
      Ev("SDL_DestroyRenderer", <<r>>, 0, <<>>, <<>>),
      Ev("SDL_DestroyWindow", <<w>>, 0, <<>>, <<>>),
      Ev("SDL_Quit", <<>>, 0, <<>>, <<>>)>>

\* part_001 196-202
Two_Teardown ==
    /\ TwoTexture /\ pc = "clear" /\ ~Two_LoopContinues(i)
    /\ calls' = calls \o Two_Cleanup(background, foreground, renderer, mainWindow)
    /\ Return("EXIT_SUCCESS")
    /\ UNCHANGED <<variant, i, mainWindow, renderer, locals, lastDest,
                   sdlError, nextHandle, texDim, imageSize>>

Next ==
    \/ Single_SDL_Init \/ Two_SDL_Init
    \/ Single_SDL_CreateWindow \/ Two_SDL_CreateWindow
    \/ Single_SDL_CreateRenderer \/ Two_SDL_CreateRenderer
    \/ Single_SDL_LoadBMP \/ Single_SDL_CreateTextureFromSurface
    \/ Single_SDL_RenderClear \/ Single_SDL_RenderCopy
    \/ Single_SDL_RenderPresent \/ Single_SDL_Delay \/ Single_Teardown
    \/ Two_LoadBackground \/ Two_LoadForeground \/ Two_CheckTextures
    \/ Two_SDL_RenderClear \/ Two_QueryBackground
    \/ Two_RenderBackground1 \/ Two_RenderBackground2
    \/ Two_RenderBackground3 \/ Two_RenderBackground4
    \/ Two_QueryForeground \/ Two_RenderForeground
    \/ Two_SDL_RenderPresent \/ Two_SDL_Delay \/ Two_Teardown

Spec == Init /\ [][Next]_vars

(***************************************************************************)
(* Reading the trace.                                                      *)
(***************************************************************************)
Idx == DOMAIN calls

CreateFns == {"SDL_CreateWindow", "SDL_CreateRenderer", "SDL_LoadBMP",
              "SDL_CreateTextureFromSurface"}
ReleaseFns == {"SDL_DestroyTexture", "SDL_DestroyRenderer", "SDL_DestroyWindow",
               "SDL_FreeSurface", "SDL_Quit"}
TeardownFns == ReleaseFns \ {"SDL_FreeSurface"}
DrawFns == {"SDL_RenderClear", "SDL_RenderCopy", "SDL_RenderPresent"}

\* A call that acquired something: SDL_Init returning 0, or a creation call
\* returning a non-null handle.
Acquired(e) ==
    \/ e.fn = "SDL_Init" /\ e.ret = 0
    \/ e.fn \in CreateFns /\ e.ret # NULL

\* What an acquisition or a release is about: the handle, and NULL stands for
\* the session (SDL_Init / SDL_Quit), which has no handle.
Resource(e) ==
    IF e.fn \in {"SDL_Init", "SDL_Quit"} THEN NULL
    ELSE IF e.fn \in CreateFns THEN e.ret
    ELSE e.args[1]

AcqIdx == {k \in Idx : Acquired(calls[k])}
RelIdx == {k \in Idx : calls[k].fn \in ReleaseFns}
ReleasesOf(a) == {k \in RelIdx : Resource(calls[k]) = Resource(calls[a])}
Count(fn) == Cardinality({k \in Idx : calls[k].fn = fn})

FailedDecodes == {k \in Idx : calls[k].fn = "SDL_LoadBMP" /\ calls[k].ret = NULL}
Uploads == {k \in Idx : calls[k].fn = "SDL_CreateTextureFromSurface"}
NoDrawCalls == \A m \in Idx : calls[m].fn \notin DrawFns

\* Every texture the program wants exists.
FullySuccessful ==
    Cardinality({k \in Uploads : calls[k].ret # NULL}) = IF TwoTexture THEN 2 ELSE 1

(***************************************************************************)
(* C1: on every exit path of every program, every handle whose creation    *)
(* succeeded (and the session) has been released exactly once.             *)
(* Violated: the two-texture program returns without destroying the one    *)
(* texture that was created when the other load failed.                    *)
(***************************************************************************)
C1_EveryHandleReleasedOnce ==
    exit # "running" =>
        \A a \in AcqIdx : Cardinality(ReleasesOf(a)) = 1

(***************************************************************************)
(* C2 as stated: after a failed SDL_LoadBMP no SDL_CreateTextureFromSurface *)
(* occurs, no clear/copy/present is issued, and the exit status is the     *)
(* failure status.  Violated: the two-texture program still loads the      *)
(* foreground after the background failed to decode.                       *)
(***************************************************************************)
C2_NoUploadAfterFailedDecode ==
    \A k \in FailedDecodes :
        /\ \A m \in Uploads : m < k
        /\ NoDrawCalls
        /\ exit # "running" => exit = "EXIT_FAILURE"

(***************************************************************************)
(* C2 amended: after a failed SDL_LoadBMP of a file, that file is never    *)
(* uploaded, no clear/copy/present is issued, and the exit status is the   *)
(* failure status.  In the single-texture programs no upload at all        *)
(* follows; in the two-texture program a failed background decode is       *)
(* followed by the foreground's decode, and the only upload that can       *)
(* follow is that of the successfully decoded foreground.                  *)
(***************************************************************************)
C2_NoUploadOfFailedFile ==
    \A k \in FailedDecodes :
        /\ \A m \in Uploads : m > k =>
              /\ TwoTexture
              /\ k < m - 1
              /\ calls[m - 1].fn = "SDL_LoadBMP"
              /\ calls[m - 1].ret # NULL
              /\ calls[m - 1].text # calls[k].text
              /\ calls[m].args[2] = calls[m - 1].ret
        /\ (calls[k].text = <<"background.bmp">> /\ pc # "loadForeground") =>
              \E d \in Idx : /\ d > k
                             /\ calls[d].fn = "SDL_LoadBMP"
                             /\ calls[d].text = <<"foreground.bmp">>
        /\ NoDrawCalls
        /\ exit # "running" => exit = "EXIT_FAILURE"

C2_Witness ==
    /\ exit = "EXIT_FAILURE"
    /\ \E k \in FailedDecodes : \E m \in Uploads : m > k /\ calls[m].ret # NULL

(***************************************************************************)
(* C3 as stated: on every exit path the releases happen in the reverse     *)
(* order of the acquisitions (strict LIFO): of two handles alive at the    *)
(* same time, the one acquired later is released first.  Violated: a       *)
(* decoded surface is freed before the texture made from it, and the two   *)
(* textures are destroyed in load order.                                   *)
(***************************************************************************)
C3_StrictLIFO ==
    exit # "running" =>
        \A a, b \in AcqIdx :
            a < b => \A ra \in ReleasesOf(a), rb \in ReleasesOf(b) :
                        ra > b => rb < ra

IsTexture(k) == calls[k].fn = "SDL_CreateTextureFromSurface"
IsSurface(k) == calls[k].fn = "SDL_LoadBMP"

(***************************************************************************)
(* C3 amended: the session, the window, the renderer and the textures are  *)
(* released in the reverse order of their acquisition, except that the two *)
(* textures of the two-texture program are destroyed in load order; every  *)
(* texture is destroyed before the renderer, the renderer before the       *)
(* window, the window before SDL_Quit.  A decoded surface is freed right   *)
(* after the upload made from it, before any texture is destroyed.         *)
(***************************************************************************)
C3_ReleaseOrder ==
    /\ \A a, b \in AcqIdx :
          (a < b /\ ~IsSurface(a) /\ ~IsSurface(b)) =>
              \A ra \in ReleasesOf(a), rb \in ReleasesOf(b) :
                  IF IsTexture(a) /\ IsTexture(b) THEN ra < rb ELSE rb < ra
    /\ \A m \in Uploads :
          /\ m + 1 \in Idx
          /\ calls[m + 1].fn = "SDL_FreeSurface"
          /\ calls[m + 1].args = <<calls[m].args[2]>>
    /\ \A r \in RelIdx :
          calls[r].fn = "SDL_FreeSurface" => r - 1 \in Uploads

C3_Witness ==
    /\ exit = "EXIT_SUCCESS"
    /\ TwoTexture
    /\ Count("SDL_DestroyTexture") = 2

(***************************************************************************)
(* C4: every handle passed to a library call was returned, non-null, by an *)
(* earlier creation call of the right kind; no call receives a handle      *)
(* whose creation failed or has not happened.                              *)
(***************************************************************************)
\* For each call, the creation call each of its handle arguments comes from.
ArgKinds(fn) ==
    CASE fn = "SDL_CreateRenderer" -> <<"SDL_CreateWindow">>
      [] fn = "SDL_CreateTextureFromSurface" -> <<"SDL_CreateRenderer", "SDL_LoadBMP">>
      [] fn = "SDL_FreeSurface" -> <<"SDL_LoadBMP">>
      [] fn = "SDL_QueryTexture" -> <<"SDL_CreateTextureFromSurface">>
      [] fn = "RenderTexture" -> <<"SDL_CreateTextureFromSurface", "SDL_CreateRenderer">>
      [] fn = "SDL_RenderCopy" -> <<"SDL_CreateRenderer", "SDL_CreateTextureFromSurface">>
      [] fn = "SDL_RenderClear" -> <<"SDL_CreateRenderer">>
      [] fn = "SDL_RenderPresent" -> <<"SDL_CreateRenderer">>
      [] fn = "SDL_DestroyTexture" -> <<"SDL_CreateTextureFromSurface">>
      [] fn = "SDL_DestroyRenderer" -> <<"SDL_CreateRenderer">>
      [] fn = "SDL_DestroyWindow" -> <<"SDL_CreateWindow">>
      [] OTHER -> <<>>

C4_HandlesCreatedBeforeUse ==
    \A k \in Idx :
        /\ Len(calls[k].args) = Len(ArgKinds(calls[k].fn))
        /\ \A j \in DOMAIN calls[k].args :
              \E m \in Idx : /\ m < k
                             /\ calls[m].fn = ArgKinds(calls[k].fn)[j]
                             /\ calls[m].ret # NULL
                             /\ calls[m].ret = calls[k].args[j]

\* One texture exists, the other does not, and the program has cleaned up.
C4_Witness ==
    /\ exit = "EXIT_FAILURE"
    /\ background # NULL
    /\ foreground = NULL
    /\ Count("SDL_DestroyRenderer") = 1

(***************************************************************************)
(* C5: on a fully successful run the frame loop runs exactly 3 cycles,     *)
(* each one clear, one or more copies, one present, one pause of 1000 ms,  *)
(* in this order, and no teardown call comes before the third pause.       *)
(***************************************************************************)
FrameCalls ==
    SelectSeq(calls, LAMBDA e : e.fn \in DrawFns \cup {"SDL_Delay"})

CycleOrder ==
    \A p \in DOMAIN FrameCalls :
        LET f == FrameCalls[p].fn
            prev == IF p = 1 THEN "SDL_Delay" ELSE FrameCalls[p - 1].fn
        IN CASE f = "SDL_RenderClear" -> prev = "SDL_Delay"
             [] f = "SDL_RenderCopy" -> prev \in {"SDL_RenderClear", "SDL_RenderCopy"}
             [] f = "SDL_RenderPresent" -> prev = "SDL_RenderCopy"
             [] f = "SDL_Delay" -> prev = "SDL_RenderPresent" /\
                                   FrameCalls[p].ints = <<1000>>

C5_ThreeFrames ==
    /\ CycleOrder
    /\ Count("SDL_RenderClear") <= 3
    /\ (FullySuccessful /\ pc = "returned") =>
          /\ exit = "EXIT_SUCCESS"
          /\ Count("SDL_RenderClear") = 3
          /\ Count("SDL_RenderPresent") = 3
          /\ Count("SDL_Delay") = 3
    /\ \A k \in Idx :
          (FullySuccessful /\ calls[k].fn \in TeardownFns) =>
              /\ Cardinality({d \in Idx : d < k /\ calls[d].fn = "SDL_Delay"}) = 3
              /\ \A m \in Idx : m > k => calls[m].fn \notin DrawFns \cup {"SDL_Delay"}

C5_Witness ==
    /\ exit = "EXIT_SUCCESS"
    /\ Count("SDL_Delay") = 3
    /\ Count("SDL_RenderCopy") >= 3

(***************************************************************************)
(* C6: if renderer creation fails, the window is destroyed exactly once,   *)
(* then the session is shut down, no image is loaded and nothing is drawn, *)
(* and the exit status is the failure status.                              *)
(***************************************************************************)
RendererFailures ==
    {k \in Idx : calls[k].fn = "SDL_CreateRenderer" /\ calls[k].ret = NULL}

C6_RendererFailureReleasesWindow ==
    \A k \in RendererFailures :
        /\ exit = "EXIT_FAILURE"
        /\ Count("SDL_DestroyWindow") = 1
        /\ Count("SDL_Quit") = 1
        /\ \E p, q \in Idx :
              /\ k < p /\ p < q
              /\ calls[p].fn = "SDL_DestroyWindow"
              /\ calls[p].args = <<mainWindow>>
              /\ calls[p].args = calls[k].args
              /\ calls[q].fn = "SDL_Quit"
              /\ q = Len(calls)
        /\ \A m \in Idx :
              calls[m].fn \notin DrawFns \cup
                  {"SDL_LoadBMP", "SDL_CreateTextureFromSurface",
                   "SDL_QueryTexture", "RenderTexture", "SDL_Delay"}

C6_Witness ==
    /\ RendererFailures # {}
    /\ mainWindow # NULL
    /\ pc = "returned"

(***************************************************************************)
(* C7: every failure exit is preceded by a line "<operation> error:        *)
(* <last-error text>" on the standard error stream.                        *)
(* Violated: the single-texture programs write their diagnostics to the    *)
(* standard output stream, as "<operation> Error: ...".                    *)
(***************************************************************************)
C7_DiagnosticOnStderr ==
    exit = "EXIT_FAILURE" =>
        \E k \in Idx : /\ calls[k].fn = "std::cerr"
                       /\ calls[k].text[2] = " error: "
                       /\ calls[k].text[3] = sdlError

(***************************************************************************)
(* C8: in every frame of the two-texture program the foreground is         *)
(* requested at x = 320 - iW/2, y = 240 - iH/2 (integer division), iW and  *)
(* iH being the foreground texture's width and height.                     *)
(***************************************************************************)
ForegroundRequests ==
    {k \in Idx : calls[k].fn = "RenderTexture" /\ calls[k].args[1] = foreground}

C8_ForegroundCentered ==
    TwoTexture =>
        /\ \A k \in ForegroundRequests :
              calls[k].ints = <<320 - (texDim[foreground][1] \div 2),
                                240 - (texDim[foreground][2] \div 2)>>
        /\ \A p \in Idx :
              calls[p].fn = "SDL_RenderPresent" => (p - 3) \in ForegroundRequests

C8_Witness ==
    /\ TwoTexture
    /\ ForegroundRequests # {}
    /\ texDim[foreground][1] % 2 = 1
    /\ texDim[foreground][2] % 2 = 1

(***************************************************************************)
(* C9: in every frame the four background draw requests use the origins    *)
(* (0, 0), (W, 0), (0, H) and (W, H), W and H being the background         *)
(* texture's width and height.                                             *)
(* Violated: the query stores both results in bW, and bH stays 0.          *)
(***************************************************************************)
C9_TilesAtQuadrantOrigins ==
    (TwoTexture /\ pc = "queryForeground") =>
        LET n == Len(calls)
            W == texDim[background][1]
            H == texDim[background][2]
        IN /\ calls[n - 11].ints = <<0, 0>>
           /\ calls[n - 8].ints = <<W, 0>>
           /\ calls[n - 5].ints = <<0, H>>
           /\ calls[n - 2].ints = <<W, H>>

(***************************************************************************)
(* C10: RenderTexture(texture, renderer, x, y) copies the texture to the   *)
(* rectangle with top-left (x, y) and the texture's own width and height.  *)
(* Violated: the query stores the height in destination.x, and             *)
(* destination.h is never assigned.                                        *)
(***************************************************************************)
C10_DestinationRect ==
    (TwoTexture /\ pc \in {"tile2", "tile3", "tile4", "queryForeground", "present"}) =>
        LET request == calls[Len(calls) - 2]
        IN /\ request.fn = "RenderTexture"
           /\ calls[Len(calls)].fn = "SDL_RenderCopy"
           /\ lastDest = [x |-> request.ints[1],
                          y |-> request.ints[2],
                          w |-> texDim[request.args[1]][1],
                          h |-> texDim[request.args[1]][2]]

====
